---- MODULE Spec2Model ----
(***************************************************************************)
(* A model of pseudo_tv: the block scheduler (ChannelMaker), the criteria  *)
(* matcher (ShowSelector.check_criteria) and the catalog validator         *)
(* (validate_json_structure / validate_catalog_rules).                     *)
(*                                                                         *)
(* Time.  The program keeps hours as floats.  Every time the scheduler     *)
(* computes is a multiple of 0.25 h below 64, which binary floating point  *)
(* represents exactly, and the validator compares times with an absolute   *)
(* tolerance of 1e-6 h.  The model keeps a time as an integer number of    *)
(* micro-minutes (1 h = 60 * 10^6 units), so that slot_duration * count    *)
(* minutes, the hours of the scheduler and the tolerance are all integers. *)
(***************************************************************************)
EXTENDS Integers, Sequences, FiniteSets, TLC

VARIABLES
    mode,           \* which program is running: "sched", "crit", "valid", "sel", "gen" or "main"
    pc,             \* position of the running program
    \* ---- ChannelMaker
    channel,        \* self.channel: available_slot_format, available_slot_count, begin, end
    begin,          \* set_blocks: the cursor
    force_minimum,  \* set_blocks: forced-minimum flag
    retry,          \* set_blocks: retry counter
    nblocks,        \* len(blocks)
    first_begin,    \* blocks[0]['begin'] (0 while the list is empty)
    last_block,     \* blocks[-1]
    contiguous,     \* history: every block appended so far began where the list then ended
    attempts,       \* history: number of generate_block calls made
    block_errs,     \* history: validator findings on the blocks appended so far
    last_try,       \* history: the last generate_block call and what set_blocks did with it
    verdict,        \* validator findings on the finished channel
    \* ---- ShowSelector.check_criteria
    show,           \* the show given to check_criteria
    criteria,       \* the criterion given to check_criteria (without its forbidden flag)
    res_plain,      \* outcome with forbidden = False
    res_forbidden,  \* outcome with forbidden = True
    \* ---- catalog validator
    catalog,        \* the catalog given to the validator
    out_rules,      \* outcome of validate_catalog_rules
    out_struct,     \* outcome of validate_catalog_structure
    \* ---- ShowSelector.generate_schedules
    sel_show_list,  \* self.show_list
    sel_blocks,     \* self.channel['blocks']; shows holds positions of show_list
    sel_i,          \* position of the running loop in the blocks
    sel_show_list0, \* history: show_list at the call
    sel_blocks0,    \* history: the blocks at the call
    \* ---- GridGenerator.generate_catalog
    gen_args,       \* catalog_template, channel_count and the template file
    gen_disk,       \* the catalog file of catalog_name (NoCatalog: no file)
    gen_mem,        \* the local variable catalog
    gen_run,        \* number of the running call of generate_catalog
    gen_done,       \* history: channels built or reloaded, and schedules generated, by this call
    gen_hi,         \* history: highest step the catalog has had, in memory and on disk
    gen_first,      \* history: the catalog file after the first completed call
    \* ---- validate_catalog_rules.main
    main_file,      \* the command line and the file it names
    main_exit,      \* exit status of the process (NoExit while running)
    main_lines      \* number of "- error" lines printed

schedVars == <<channel, begin, force_minimum, retry, nblocks, first_begin, last_block,
               contiguous, attempts, block_errs, last_try, verdict>>
critVars == <<show, criteria, res_plain, res_forbidden>>
validVars == <<catalog, out_rules, out_struct>>
selVars == <<sel_show_list, sel_blocks, sel_i, sel_show_list0, sel_blocks0>>
genVars == <<gen_args, gen_disk, gen_mem, gen_run, gen_done, gen_hi, gen_first>>
mainVars == <<main_file, main_exit, main_lines>>
restVars == <<selVars, genVars, mainVars>>
vars == <<mode, pc, schedVars, critVars, validVars, restVars>>

(***************************************************************************)
(* Units and small helpers                                                 *)
(***************************************************************************)
UnitsPerMinute == 1000 * 1000
UnitsPerHour == 60 * UnitsPerMinute
Hours(h) == h * UnitsPerHour

Abs(x) == IF x < 0 THEN 0 - x ELSE x
MinOf(S) == CHOOSE x \in S : \A y \in S : x <= y
MaxOf(S) == CHOOSE x \in S : \A y \in S : y <= x
Range(s) == {s[i] : i \in 1..Len(s)}

(***************************************************************************)
(* Validator primitives (validate_catalog_rules.py), on numeric times      *)
(***************************************************************************)
Tol == UnitsPerHour \div (1000 * 1000)

AlmostEqual(a, b) == Abs(a - b) <= Tol

ALLOWED_SLOT_FORMATS == <<
    [show_min_duration |-> 22, show_max_duration |-> 26, slot_duration |-> 30],
    [show_min_duration |-> 45, show_max_duration |-> 52, slot_duration |-> 60],
    [show_min_duration |-> 70, show_max_duration |-> 80, slot_duration |-> 90],
    [show_min_duration |-> 95, show_max_duration |-> 110, slot_duration |-> 120],
    [show_min_duration |-> 12, show_max_duration |-> 13, slot_duration |-> 15] >>

IsAllowedSlotFormat(sf) ==
    \E i \in 1..Len(ALLOWED_SLOT_FORMATS) :
        /\ sf.show_min_duration = ALLOWED_SLOT_FORMATS[i].show_min_duration
        /\ sf.show_max_duration = ALLOWED_SLOT_FORMATS[i].show_max_duration
        /\ sf.slot_duration = ALLOWED_SLOT_FORMATS[i].slot_duration

\* "begin < end requis", for a channel or a block
BeginEndError(b, e) == ~(b < e)
\* "le 1er bloc doit commencer à 'begin'"
FirstBlockError(first_b, ch_begin) == ~AlmostEqual(first_b, ch_begin)
\* "le dernier bloc doit finir à 'end'"
LastBlockError(last_end, ch_end) == ~AlmostEqual(last_end, ch_end)
\* "chevauchement blocs i et i+1" (mutant: twice the tolerance)
OverlapErrorLoose(cur_end, nxt_begin) == cur_end > nxt_begin + 2 * Tol
OverlapError(cur_end, nxt_begin) == cur_end > nxt_begin + Tol
\* "trou entre blocs i et i+1"
GapError(cur_end, nxt_begin) == ~AlmostEqual(cur_end, nxt_begin)
\* "bloc#j hors de la plage chaîne"
OutOfRangeError(b_begin, b_end, ch_begin, ch_end) ==
    b_begin < ch_begin - Tol \/ b_end > ch_end + Tol
\* expected_hours = slot_duration * slot_count / 60
ExpectedHours(slot_duration, slot_count) == slot_duration * slot_count * UnitsPerMinute
\* "durée bloc ... ≠ ... attendu"
DurationErrorLoose(b_begin, b_end, slot_duration, slot_count) ==
    Abs(ExpectedHours(slot_duration, slot_count) - (b_end - b_begin)) > 2 * Tol
DurationError(b_begin, b_end, slot_duration, slot_count) ==
    ~AlmostEqual(ExpectedHours(slot_duration, slot_count), b_end - b_begin)

(***************************************************************************)
(* ChannelMaker (grid_generator.py)                                        *)
(***************************************************************************)
channel_begin_at == 6
channel_end_at == 4

available_slot_formats == <<
    [show_min_duration |-> 22, show_max_duration |-> 26, slot_duration |-> 30],
    [show_min_duration |-> 45, show_max_duration |-> 52, slot_duration |-> 60],
    [show_min_duration |-> 70, show_max_duration |-> 80, slot_duration |-> 90],
    [show_min_duration |-> 95, show_max_duration |-> 110, slot_duration |-> 120],
    [show_min_duration |-> 12, show_max_duration |-> 13, slot_duration |-> 15] >>

slot_count_options == <<1, 2, 3>>

NoFormat == [show_min_duration |-> 0, show_max_duration |-> 0, slot_duration |-> 0]
\* generate_block's None, and the value of last_block while the list is empty
NoBlock == [begin |-> 0, end |-> 0, slot_count |-> 0, slot_format |-> NoFormat]
NoChannel == [available_slot_format |-> {}, available_slot_count |-> {},
              begin |-> 0, end |-> 0]
\* No generate_block call made yet.  `after` is the outcome of the attempt before
\* and after_failed its cursor and candidate when it failed.
NoTry == [begin |-> 0, end |-> 0, slot_duration |-> 0, slot_count |-> 0,
          force_minimum |-> FALSE, retry |-> 0, nblocks |-> 0,
          placed |-> FALSE, after |-> "start", after_failed |-> <<>>]

\* multiple_random_selection: randint(1, min(len, maximum)) elements of the shuffled
\* options.  The callers only draw from the result or take its minimum, so the
\* result is kept as the set of the elements kept.
MultipleRandomSelection(options, maximum_option_count) ==
    LET option_count == IF Len(options) < maximum_option_count
                        THEN Len(options) ELSE maximum_option_count
    IN {S \in SUBSET Range(options) : Cardinality(S) \in 1..option_count}

MinuteToFloatHour(duration) == duration * UnitsPerMinute

NormalizeHourToDay(hour) == IF hour < Hours(24) THEN hour ELSE hour - Hours(24)

\* min(available_slot_format, key=slot_duration) (mutant: max)
MaxSlotFormat(formats) ==
    CHOOSE f \in formats : \A g \in formats : f.slot_duration >= g.slot_duration
MinSlotFormat(formats) ==
    CHOOSE f \in formats : \A g \in formats : f.slot_duration <= g.slot_duration

\* The guard of generate_block: the candidate is rejected (mutant: a wrapped end
\* equal to channel.end is rejected too)
RejectedAtEnd(end_date, ch_end) ==
    LET normalized_end_date == NormalizeHourToDay(end_date)
    IN end_date /= normalized_end_date /\ normalized_end_date >= ch_end
Rejected(end_date, ch_end) ==
    LET normalized_end_date == NormalizeHourToDay(end_date)
    IN end_date /= normalized_end_date /\ normalized_end_date > ch_end

\* generate_block lines 150-154: the (slot format, slot count) pairs the selection
\* can yield: any pair of the pools (random.choice), or the two minima when forced
\* (mutants: when forced, only the format, or only the count, is the minimum)
SelectionsAnyFormat(ch, force) ==
    IF ~force THEN ch.available_slot_format \X ch.available_slot_count
    ELSE ch.available_slot_format \X {MinOf(ch.available_slot_count)}
SelectionsAnyCount(ch, force) ==
    IF ~force THEN ch.available_slot_format \X ch.available_slot_count
    ELSE {MinSlotFormat(ch.available_slot_format)} \X ch.available_slot_count
Selections(ch, force) ==
    IF ~force THEN ch.available_slot_format \X ch.available_slot_count
    ELSE {<<MinSlotFormat(ch.available_slot_format), MinOf(ch.available_slot_count)>>}

\* generate_block lines 156-157: end_date
CandidateEnd(b, selected_slot_format, selected_slot_count) ==
    b + MinuteToFloatHour(selected_slot_format.slot_duration * selected_slot_count)

\* generate_block, from the selection on (lines 156-166)
GenerateBlock(ch, b, selected_slot_format, selected_slot_count) ==
    LET end_date == CandidateEnd(b, selected_slot_format, selected_slot_count)
    IN IF Rejected(end_date, ch.end) THEN NoBlock
       ELSE [begin |-> b, end |-> end_date, slot_count |-> selected_slot_count,
             slot_format |-> selected_slot_format]

\* set_blocks line 136: begin = block['end'] (mutant: the normalized end)
NextBeginNormalized(block) == NormalizeHourToDay(block.end)
NextBegin(block) == block.end

\* set_blocks line 138: retry = 0 (mutant: retry kept)
RetryAfterSuccessKept(r) == r
RetryAfterSuccess(r) == 0

\* set_blocks line 141: retry += 1 (mutant: retry = 1)
RetryAfterFailureSet(r) == 1
RetryAfterFailure(r) == r + 1

\* set_blocks line 142: if retry > 1: break (mutant: retry > 0)
LoopExitEarly(r) == r > 0
LoopExit(r) == r > 1

\* What the validator's per-block and per-pair checks find on a block appended after
\* `prev` (the blocks are appended in increasing begin order, so the validator's
\* sort leaves them in placement order).
BlockFindings(ch, n, prev, b) ==
    {k \in {"block_begin_end", "out_of_range", "duration", "overlap", "gap"} :
        \/ k = "block_begin_end" /\ BeginEndError(b.begin, b.end)
        \/ k = "out_of_range" /\ OutOfRangeError(b.begin, b.end, ch.begin, ch.end)
        \/ k = "duration" /\ DurationError(b.begin, b.end, b.slot_format.slot_duration,
                                           b.slot_count)
        \/ k = "overlap" /\ n > 0 /\ OverlapError(prev.end, b.begin)
        \/ k = "gap" /\ n > 0 /\ GapError(prev.end, b.begin)}

\* What the validator's channel-level checks find on the finished channel
ChannelFindings(ch, n, first_b, last) ==
    {k \in {"channel_begin_end", "first_block", "last_block"} :
        \/ k = "channel_begin_end" /\ BeginEndError(ch.begin, ch.end)
        \/ k = "first_block" /\ n > 0 /\ FirstBlockError(first_b, ch.begin)
        \/ k = "last_block" /\ n > 0 /\ LastBlockError(last.end, ch.end)}

SchedIdle ==
    /\ channel = NoChannel /\ begin = 0 /\ force_minimum = FALSE /\ retry = 0
    /\ nblocks = 0 /\ first_begin = 0 /\ last_block = NoBlock
    /\ contiguous = TRUE /\ attempts = 0 /\ block_errs = {} /\ verdict = {}
    /\ last_try = NoTry
CritIdle ==
    /\ show = <<>> /\ criteria = <<>> /\ res_plain = "none" /\ res_forbidden = "none"
ValidIdle ==
    /\ catalog = <<>> /\ out_rules = <<>> /\ out_struct = <<>>
SelIdle ==
    /\ sel_show_list = <<>> /\ sel_blocks = <<>> /\ sel_i = 0
    /\ sel_show_list0 = <<>> /\ sel_blocks0 = <<>>
GenIdle ==
    /\ gen_args = <<>> /\ gen_disk = <<>> /\ gen_mem = <<>> /\ gen_run = 0
    /\ gen_done = <<>> /\ gen_hi = <<>> /\ gen_first = <<>>
NoExit == 0 - 1
MainIdle == main_file = "" /\ main_exit = NoExit /\ main_lines = 0
RestIdle == SelIdle /\ GenIdle /\ MainIdle

\* ChannelMaker.__init__
InitSched ==
    /\ mode = "sched" /\ pc = "set_slot_config"
    /\ SchedIdle /\ CritIdle /\ ValidIdle /\ RestIdle

\* set_slot_config
SetSlotConfig ==
    /\ mode = "sched" /\ pc = "set_slot_config"
    /\ \E selected_slot_formats \in MultipleRandomSelection(available_slot_formats, 2),
          selected_slot_counts \in MultipleRandomSelection(slot_count_options, 2) :
          channel' = [available_slot_count |-> selected_slot_counts,
                      available_slot_format |-> selected_slot_formats,
                      begin |-> Hours(channel_begin_at),
                      end |-> Hours(channel_end_at)]
    /\ pc' = "set_blocks_entry"
    /\ UNCHANGED <<mode, begin, force_minimum, retry, nblocks, first_begin, last_block,
                   contiguous, attempts, block_errs, last_try, verdict,
                   critVars, validVars, restVars>>

\* set_blocks, lines 129-132
SetBlocksEntry ==
    /\ mode = "sched" /\ pc = "set_blocks_entry"
    /\ begin' = channel.begin
    /\ nblocks' = 0 /\ first_begin' = 0 /\ last_block' = NoBlock
    /\ force_minimum' = FALSE
    /\ retry' = 0
    /\ pc' = "set_blocks_loop"
    /\ UNCHANGED <<mode, channel, contiguous, attempts, block_errs, last_try, verdict,
                   critVars, validVars, restVars>>

\* set_blocks, one iteration of the while loop (lines 134-143)
SetBlocksIteration ==
    /\ mode = "sched" /\ pc = "set_blocks_loop"
    /\ \E sel \in Selections(channel, force_minimum) :
        LET block == GenerateBlock(channel, begin, sel[1], sel[2])
            new_retry == IF block /= NoBlock THEN RetryAfterSuccess(retry)
                         ELSE RetryAfterFailure(retry)
        IN /\ attempts' = attempts + 1
           /\ last_try' = [begin |-> begin,
                           end |-> CandidateEnd(begin, sel[1], sel[2]),
                           slot_duration |-> sel[1].slot_duration,
                           slot_count |-> sel[2],
                           force_minimum |-> force_minimum,
                           retry |-> retry,
                           nblocks |-> nblocks,
                           placed |-> (block /= NoBlock),
                           after |-> IF attempts = 0 THEN "start"
                                     ELSE IF last_try.placed THEN "placed"
                                     ELSE IF last_try.force_minimum THEN "failed_forced"
                                     ELSE "failed_accumulating",
                           after_failed |-> IF attempts = 0 \/ last_try.placed THEN <<>>
                                            ELSE <<last_try.begin, last_try.slot_duration,
                                                   last_try.slot_count>>]
           /\ IF block /= NoBlock
              THEN /\ begin' = NextBegin(block)
                   /\ nblocks' = nblocks + 1
                   /\ first_begin' = IF nblocks = 0 THEN block.begin ELSE first_begin
                   /\ last_block' = block
                   /\ contiguous' = (contiguous /\
                         IF nblocks = 0 THEN block.begin = channel.begin
                         ELSE block.begin = last_block.end)
                   /\ block_errs' = block_errs \cup
                         BlockFindings(channel, nblocks, last_block, block)
                   /\ UNCHANGED force_minimum
              ELSE /\ force_minimum' = TRUE
                   /\ UNCHANGED <<begin, nblocks, first_begin, last_block, contiguous,
                                  block_errs>>
           /\ retry' = new_retry
           /\ pc' = IF LoopExit(new_retry) THEN "done" ELSE "set_blocks_loop"
    /\ UNCHANGED <<mode, channel, verdict, critVars, validVars, restVars>>

\* The validator's temporal and arithmetic checks on the channel set_blocks left
ValidateGenerated ==
    /\ mode = "sched" /\ pc = "done"
    /\ verdict' = block_errs \cup ChannelFindings(channel, nblocks, first_begin, last_block)
    /\ pc' = "validated"
    /\ UNCHANGED <<mode, channel, begin, force_minimum, retry, nblocks, first_begin,
                   last_block, contiguous, attempts, block_errs, last_try,
                   critVars, validVars, restVars>>

NextSched == SetSlotConfig \/ SetBlocksEntry \/ SetBlocksIteration \/ ValidateGenerated

SpecSched == InitSched /\ [][NextSched]_vars

(***************************************************************************)
(* ShowSelector.check_criteria (grid_generator.py)                         *)
(*                                                                         *)
(* A value of a property or criterion list is a string, a number or None:  *)
(* [t |-> "str", v |-> s] is the string s, [t |-> "num", v |-> n] the      *)
(* number n, and Null is None.  An outcome is "True", "False", or the name *)
(* of the exception raised.                                                *)
(***************************************************************************)
Null == [t |-> "null", v |-> 0]
Str(s) == [t |-> "str", v |-> s]
Num(n) == [t |-> "num", v |-> n]

\* Python truth value, as any() reads it
Truthy(x) == ~(x.t = "null") /\ ~(x.t = "str" /\ x.v = "") /\ ~(x.t = "num" /\ x.v = 0)

CATEGORICAL == {"genre", "type", "language"}
DURATION == "duration"

\* show.get('properties', {}).get(category, [])
ShowProperty(sh, category) ==
    IF "properties" \in DOMAIN sh
    THEN IF category \in DOMAIN sh.properties THEN sh.properties[category] ELSE <<>>
    ELSE <<>>

\* line 78: if len(values) > 0 (mutant: the guard left out)
HasValuesAlways(values) == TRUE
HasValues(values) == Len(values) > 0

\* line 85: any(props.intersection(set(values)))
MatchCategorical(props, values) == \E x \in props \cap Range(values) : Truthy(x)

\* line 82 with inclusive bounds (mutant)
MatchDurationInclusive(props, values) ==
    LET vals == Range(values)
    IN IF Len(values) >= 2 /\ Null \in vals THEN "TypeError"
       ELSE IF props = {} THEN "ValueError"
       ELSE IF Null \in vals THEN "TypeError"
       ELSE LET vmin == MinOf({x.v : x \in vals})
                vmax == MaxOf({x.v : x \in vals})
                pmin == MinOf({x.v : x \in props})
                pmax == MaxOf({x.v : x \in props})
            IN IF vmin <= pmin /\ pmax <= vmax THEN "True" ELSE "False"

\* line 82: min(values) < min(props) and max(props) < max(values), props without None
MatchDuration(props, values) ==
    LET vals == Range(values)
    IN IF Len(values) >= 2 /\ Null \in vals THEN "TypeError"
       ELSE IF props = {} THEN "ValueError"
       ELSE IF Null \in vals THEN "TypeError"
       ELSE LET vmin == MinOf({x.v : x \in vals})
                vmax == MaxOf({x.v : x \in vals})
                pmin == MinOf({x.v : x \in props})
                pmax == MaxOf({x.v : x \in props})
            IN IF vmin < pmin /\ pmax < vmax THEN "True" ELSE "False"

\* line 83 and 86: return match if not forbidden else not match
Returned(match, forbidden) ==
    IF match \notin {"True", "False"} THEN match
    ELSE IF ~forbidden THEN match
    ELSE IF match = "True" THEN "False" ELSE "True"

CheckCriteria(sh, crit, forbidden) ==
    LET values == crit.values
        category == crit.category
    IN IF HasValues(values)
       THEN LET props == Range(ShowProperty(sh, category))
            IN IF category = DURATION
               THEN IF \A i \in props : i /= Null
                    THEN Returned(MatchDuration(props, values), forbidden)
                    ELSE "False"
               ELSE Returned(IF MatchCategorical(props, values) THEN "True" ELSE "False",
                             forbidden)
       ELSE "False"

\* Inputs: lists of at most MaxProps / MaxValues values
MaxProps == 2
MaxValues == 2
SeqsUpTo(S, n) == UNION {[1..k -> S] : k \in 0..n}
CategoricalValues == {Str(""), Str("Action"), Num(0), Num(1)}
DurationValues == {Null, Num(1), Num(2), Num(3)}
ValuesOf(category) == IF category = DURATION THEN DurationValues ELSE CategoricalValues

Shows(category) ==
    {[name |-> "show"], [name |-> "show", properties |-> <<>>]}
    \cup {[name |-> "show", properties |-> (category :> l)] :
            l \in SeqsUpTo(ValuesOf(category), MaxProps)}

Criterias(category) ==
    {[category |-> category, values |-> l] : l \in SeqsUpTo(ValuesOf(category), MaxValues)}

InitCrit ==
    /\ mode = "crit" /\ pc = "call"
    /\ \E category \in CATEGORICAL \cup {DURATION} :
          /\ show \in Shows(category)
          /\ criteria \in Criterias(category)
    /\ res_plain = "none" /\ res_forbidden = "none"
    /\ SchedIdle /\ ValidIdle /\ RestIdle

\* check_criteria on the same show and criterion, with forbidden False and True
CheckCriteriaCall ==
    /\ mode = "crit" /\ pc = "call"
    /\ res_plain' = CheckCriteria(show, criteria, FALSE)
    /\ res_forbidden' = CheckCriteria(show, criteria, TRUE)
    /\ pc' = "returned"
    /\ UNCHANGED <<mode, show, criteria, schedVars, validVars, restVars>>

NextCrit == CheckCriteriaCall

SpecCrit == InitCrit /\ [][NextCrit]_vars

(***************************************************************************)
(* ShowSelector.generate_schedules                                         *)
(*                                                                         *)
(* block['shows'] holds references to the shows of show_list: the model    *)
(* keeps the set of their positions in show_list.  The order of the list   *)
(* is not kept: random.shuffle leaves it arbitrary.                        *)
(***************************************************************************)
\* line 68: items[:10]
CurateLimit == 10

\* line 76: criteria.get('forbidden', False)
Forbidden(crit) == IF "forbidden" \in DOMAIN crit THEN crit.forbidden ELSE FALSE

\* lines 42-48: the duration criterion of the slot format (mutant of
\* AllCriteria: the block's criteria alone)
DurationCriterion(slot) ==
    [category |-> DURATION,
     values |-> <<Num(slot.show_min_duration), Num(slot.show_max_duration)>>,
     forbidden |-> FALSE]
BlockCriteriaOnly(block) == block.criteria
AllCriteria(block) == <<DurationCriterion(block.slot_format)>> \o block.criteria

\* get_matching_shows: the positions of the shows all criteria accept, or the
\* exception check_criteria raised
GetMatchingShows(show_list, crits) ==
    LET res(i, k) == CheckCriteria(show_list[i], crits[k], Forbidden(crits[k]))
        raised == {<<i, k>> \in (1..Len(show_list)) \X (1..Len(crits)) :
                      res(i, k) \notin {"True", "False"}}
    IN IF raised /= {}
       THEN [exc |-> "raised", shows |-> {}]
       ELSE [exc |-> "",
             shows |-> {i \in 1..Len(show_list) :
                           \A k \in 1..Len(crits) : res(i, k) = "True"}]

\* line 50: block['shows'] = ... (mutant: the criteria are lost as well)
SetShowsAndDropCriteria(block, shows) == [block EXCEPT !.shows = shows, !.criteria = <<>>]
SetShows(block, shows) == [block EXCEPT !.shows = shows]

\* lines 67-68: shuffle, then keep the first 10: any CurateLimit of the items,
\* or all of them when there are fewer
Curations(items) ==
    {kept \in SUBSET items :
        Cardinality(kept) = (IF Cardinality(items) < CurateLimit
                             THEN Cardinality(items) ELSE CurateLimit)}

\* Inputs: shows as JellyfinShowRetriever builds them, with two duration values
MaxShows == 11
MaxSelBlocks == 2
ShowOf(genre, type, lo, hi) ==
    [name |-> "show",
     properties |-> ("genre" :> <<Str(genre)>> @@ "type" :> <<Str(type)>>
                     @@ "duration" :> <<lo, hi>> @@ "language" :> <<Str("fre")>>)]
Copies(x, n) == [i \in 1..n |-> x]
SelShowLists ==
    {Copies(ShowOf("Action", "series", Num(46), Num(50)), n) \o extra :
        n \in 0..MaxShows,
        extra \in {<<>>,
                   <<ShowOf("Drame", "series", Num(46), Num(50))>>,
                   <<ShowOf("Action", "movie", Null, Null)>>,
                   <<ShowOf("Action", "movie", Num(45), Num(45))>>,
                   <<ShowOf("Action", "movie", Num(24), Num(24))>>}}
SelCriteria ==
    {<<>>,
     <<[category |-> "genre", values |-> <<Str("Action")>>]>>,
     <<[category |-> "genre", values |-> <<Str("Drame")>>, forbidden |-> TRUE]>>,
     <<[category |-> "type", values |-> <<Str("movie")>>, forbidden |-> FALSE]>>}
SelBlock(j, fi, crits) ==
    [begin |-> Hours(5 + j),
     end |-> Hours(5 + j) + available_slot_formats[fi].slot_duration * UnitsPerMinute,
     slot_count |-> 1, slot_format |-> available_slot_formats[fi],
     criteria |-> crits, shows |-> {}]
SelBlockLists ==
    UNION {{[j \in 1..n |-> SelBlock(j, c[j][1], c[j][2])] :
              c \in [1..n -> {1, 2} \X SelCriteria]} : n \in 0..MaxSelBlocks}

InitSel ==
    /\ mode = "sel" /\ pc = "match"
    /\ sel_show_list \in SelShowLists
    /\ sel_blocks \in SelBlockLists
    /\ sel_i = 1
    /\ sel_show_list0 = sel_show_list /\ sel_blocks0 = sel_blocks
    /\ SchedIdle /\ CritIdle /\ ValidIdle /\ GenIdle /\ MainIdle

\* generate_schedules, lines 40-50: one turn of the loop over the blocks
MatchBlock ==
    /\ mode = "sel" /\ pc = "match" /\ sel_i <= Len(sel_blocks)
    /\ LET matching == GetMatchingShows(sel_show_list, AllCriteria(sel_blocks[sel_i]))
       IN IF matching.exc /= ""
          THEN pc' = "raised" /\ UNCHANGED <<sel_blocks, sel_i>>
          ELSE /\ sel_blocks' = [sel_blocks EXCEPT
                                    ![sel_i] = SetShows(sel_blocks[sel_i], matching.shows)]
               /\ sel_i' = sel_i + 1
               /\ pc' = pc
    /\ UNCHANGED <<mode, sel_show_list, sel_show_list0, sel_blocks0,
                   schedVars, critVars, validVars, genVars, mainVars>>

\* generate_schedules, line 51: the loop is over, curate_channel is called
CallCurate ==
    /\ mode = "sel" /\ pc = "match" /\ sel_i > Len(sel_blocks)
    /\ pc' = "curate" /\ sel_i' = 1
    /\ UNCHANGED <<mode, sel_show_list, sel_blocks, sel_show_list0, sel_blocks0,
                   schedVars, critVars, validVars, genVars, mainVars>>

\* curate_channel, lines 65-68: one turn of the loop over the blocks
CurateBlock ==
    /\ mode = "sel" /\ pc = "curate" /\ sel_i <= Len(sel_blocks)
    /\ \E kept \in Curations(sel_blocks[sel_i].shows) :
          sel_blocks' = [sel_blocks EXCEPT ![sel_i] = SetShows(sel_blocks[sel_i], kept)]
    /\ sel_i' = sel_i + 1
    /\ UNCHANGED <<mode, pc, sel_show_list, sel_show_list0, sel_blocks0,
                   schedVars, critVars, validVars, genVars, mainVars>>

\* curate_channel and generate_schedules return
ReturnSel ==
    /\ mode = "sel" /\ pc = "curate" /\ sel_i > Len(sel_blocks)
    /\ pc' = "done"
    /\ UNCHANGED <<mode, selVars, schedVars, critVars, validVars, genVars, mainVars>>

NextSel == MatchBlock \/ CallCurate \/ CurateBlock \/ ReturnSel

SpecSel == InitSel /\ [][NextSel]_vars

(***************************************************************************)
(* GridGenerator.generate_catalog                                          *)
(*                                                                         *)
(* A channel is kept as where it comes from, whether it has the key        *)
(* 'fillers', and how many times generate_schedules has filled its blocks. *)
(***************************************************************************)
\* data_types.py, CatalogGenerationStep
StepInit == 0
StepGeneration == 1
StepConfig == 2

MaxChannelCount == 2
MaxRuns == 3

NoCatalog == [step |-> -1, channels |-> <<>>]
\* line 400: {'name': catalog_name, 'step': 0, 'channels': []}
FreshCatalog == [step |-> StepInit, channels |-> <<>>]
\* generate_random_channel: the channel ChannelMaker builds has no 'fillers'
RandomChannel == [origin |-> "random", fillers |-> FALSE, assigned |-> 0]
\* a channel of a template file, written as the validator requires
TemplateChannel == [origin |-> "template", fillers |-> TRUE, assigned |-> 0]
TemplateFiles ==
    {NoCatalog} \cup {[step |-> StepInit, channels |-> Copies(TemplateChannel, n)] :
                        n \in 1..MaxChannelCount}

\* get_or_create_catalog
GetOrCreateCatalog(file) == IF file = NoCatalog THEN FreshCatalog ELSE file

MaxStep(a, b) == IF a < b THEN b ELSE a
\* the history of the steps, after the catalog in memory and the file became m and d
Seen(hi, m, d) == [mem |-> MaxStep(hi.mem, m.step), disk |-> MaxStep(hi.disk, d.step)]

InitGen ==
    /\ mode = "gen" /\ pc = "start"
    /\ gen_args \in [template : {"random", "demo"}, channel_count : 1..MaxChannelCount,
                     template_file : TemplateFiles]
    /\ gen_disk = NoCatalog /\ gen_mem = NoCatalog
    /\ gen_run = 1
    /\ gen_done = [channels |-> 0, schedules |-> 0]
    /\ gen_hi = [mem |-> -1, disk |-> -1]
    /\ gen_first = NoCatalog
    /\ SchedIdle /\ CritIdle /\ ValidIdle /\ SelIdle /\ MainIdle

\* lines 339-348: catalog = self.get_or_create_catalog(catalog_name)
LoadCatalog ==
    /\ mode = "gen" /\ pc = "start"
    /\ gen_mem' = GetOrCreateCatalog(gen_disk)
    /\ gen_hi' = Seen(gen_hi, gen_mem', gen_disk)
    /\ pc' = "structure"
    /\ UNCHANGED <<mode, gen_args, gen_disk, gen_run, gen_done, gen_first,
                   schedVars, critVars, validVars, selVars, mainVars>>

\* lines 350-362: the structure stage, and save_catalog
GenerateStructure ==
    /\ mode = "gen" /\ pc = "structure"
    /\ IF gen_mem.step < StepGeneration
       THEN LET loaded == GetOrCreateCatalog(gen_args.template_file)
                channels == IF gen_args.template = "random"
                            THEN gen_mem.channels
                                   \o Copies(RandomChannel, gen_args.channel_count)
                            ELSE loaded.channels
                built == IF gen_args.template = "random" THEN gen_args.channel_count
                         ELSE Len(loaded.channels)
            IN /\ gen_mem' = [step |-> StepGeneration, channels |-> channels]
               /\ gen_disk' = gen_mem'
               /\ gen_done' = [gen_done EXCEPT !.channels = @ + built]
       ELSE UNCHANGED <<gen_mem, gen_disk, gen_done>>
    /\ gen_hi' = Seen(gen_hi, gen_mem', gen_disk')
    /\ pc' = "super"
    /\ UNCHANGED <<mode, gen_args, gen_run, gen_first,
                   schedVars, critVars, validVars, selVars, mainVars>>

\* lines 364-371: channel['fillers'] is read for every channel, then save_catalog
ReplaceSuperCategories ==
    /\ mode = "gen" /\ pc = "super"
    /\ IF \E i \in 1..Len(gen_mem.channels) : ~gen_mem.channels[i].fillers
       THEN pc' = "raised" /\ UNCHANGED gen_disk
       ELSE pc' = "content" /\ gen_disk' = gen_mem
    /\ gen_hi' = Seen(gen_hi, gen_mem, gen_disk')
    /\ UNCHANGED <<mode, gen_args, gen_mem, gen_run, gen_done, gen_first,
                   schedVars, critVars, validVars, selVars, mainVars>>

\* lines 373-379: the content stage, up to catalog['step'] = config
AssignContent ==
    /\ mode = "gen" /\ pc = "content"
    /\ IF gen_mem.step < StepConfig
       THEN /\ gen_mem' = [step |-> StepConfig,
                           channels |-> [i \in 1..Len(gen_mem.channels) |->
                               [gen_mem.channels[i] EXCEPT !.assigned = @ + 1]]]
            /\ gen_done' = [gen_done EXCEPT !.schedules = @ + Len(gen_mem.channels)]
            /\ pc' = "reset"
       ELSE /\ UNCHANGED <<gen_mem, gen_done>>
            /\ pc' = "returned"
    /\ gen_hi' = Seen(gen_hi, gen_mem', gen_disk)
    /\ UNCHANGED <<mode, gen_args, gen_disk, gen_run, gen_first,
                   schedVars, critVars, validVars, selVars, mainVars>>

\* lines 380-382: catalog['step'] = 0, save_catalog, return
ResetStepAndSave ==
    /\ mode = "gen" /\ pc = "reset"
    /\ gen_mem' = [gen_mem EXCEPT !.step = 0]
    /\ gen_disk' = gen_mem'
    /\ gen_hi' = Seen(gen_hi, gen_mem', gen_disk')
    /\ pc' = "returned"
    /\ UNCHANGED <<mode, gen_args, gen_run, gen_done, gen_first,
                   schedVars, critVars, validVars, selVars, mainVars>>

\* generate_catalog is called again with the same arguments
RunAgain ==
    /\ mode = "gen" /\ pc \in {"returned", "raised"} /\ gen_run < MaxRuns
    /\ gen_run' = gen_run + 1
    /\ gen_first' = IF gen_first = NoCatalog /\ pc = "returned" THEN gen_disk ELSE gen_first
    /\ gen_done' = [channels |-> 0, schedules |-> 0]
    /\ gen_mem' = NoCatalog
    /\ pc' = "start"
    /\ UNCHANGED <<mode, gen_args, gen_disk, gen_hi,
                   schedVars, critVars, validVars, selVars, mainVars>>

NextGen == LoadCatalog \/ GenerateStructure \/ ReplaceSuperCategories \/ AssignContent
              \/ ResetStepAndSave \/ RunAgain

SpecGen == InitGen /\ [][NextGen]_vars

(***************************************************************************)
(* JSON values, as json.load returns them                                  *)
(*                                                                         *)
(* An object is [t |-> "object", f |-> <a function from its keys>], a list *)
(* [t |-> "list", items |-> <a sequence>]; numbers carry their value (a    *)
(* time in micro-minutes where the program reads hours) and whether Python *)
(* reads them as int.  The strings of the model are not numerals, so       *)
(* float() of a string raises.                                             *)
(***************************************************************************)
JNull == [t |-> "null"]
JStr(s) == [t |-> "string", s |-> s]
JInt(n) == [t |-> "number", v |-> n, isint |-> TRUE]
JFloat(n) == [t |-> "number", v |-> n, isint |-> FALSE]
JBool(b) == [t |-> "bool", b |-> b]
JList(items) == [t |-> "list", items |-> items]
JObj(f) == [t |-> "object", f |-> f]

IsDict(x) == x.t = "object"
IsList(x) == x.t = "list"
IsStr(x) == x.t = "string"
IsBool(x) == x.t = "bool"
IsNone(x) == x.t = "null"
\* isinstance(x, (int, float)): bool is a subclass of int
IsNumber(x) == x.t \in {"number", "bool"}
\* isinstance(x, int)
IsInt(x) == (x.t = "number" /\ x.isint) \/ x.t = "bool"
\* usable as an element of a set lookup (x in SET)
Hashable(x) == x.t \notin {"list", "object"}

\* key in obj, obj.get(key) and obj.get(key, default) for a dict obj
HasKey(obj, key) == key \in DOMAIN obj.f
Get(obj, key) == IF HasKey(obj, key) THEN obj.f[key] ELSE JNull
GetOr(obj, key, default) == IF HasKey(obj, key) THEN obj.f[key] ELSE default

\* float(x): the value, or the exception.  `one` is the model's value of 1.0
\* in the unit of the field; a number already carries its value in that unit.
\* Of the strings float() parses, the model has the single digits.
Digits == <<"0", "1", "2", "3", "4", "5", "6", "7", "8", "9">>
Float(x, one) ==
    CASE x.t = "number" -> [exc |-> "", v |-> x.v]
      [] x.t = "bool" -> [exc |-> "", v |-> IF x.b THEN one ELSE 0]
      [] x.t = "string" ->
            IF \E d \in 1..10 : Digits[d] = x.s
            THEN [exc |-> "", v |-> ((CHOOSE d \in 1..10 : Digits[d] = x.s) - 1) * one]
            ELSE [exc |-> "ValueError", v |-> 0]
      [] OTHER -> [exc |-> "TypeError", v |-> 0]

(***************************************************************************)
(* Validator outcomes: the error list, or the exception that escaped       *)
(***************************************************************************)
Ok(errs) == [exc |-> "", errs |-> errs]
Raise(exc) == [exc |-> exc, errs |-> <<>>]
\* r1 then r2: the errors of both, unless one raised
Then(r1, r2) == IF r1.exc /= "" THEN Raise(r1.exc)
                ELSE IF r2.exc /= "" THEN Raise(r2.exc)
                ELSE Ok(r1.errs \o r2.errs)
RECURSIVE ThenAll(_)
ThenAll(rs) == IF Len(rs) = 0 THEN Ok(<<>>) ELSE Then(Head(rs), ThenAll(Tail(rs)))
RECURSIVE Flatten(_)
Flatten(ss) == IF Len(ss) = 0 THEN <<>> ELSE Head(ss) \o Flatten(Tail(ss))

\* One error message: its kind, the indices of its prefix ([channel#i][block#j]
\* [criteria#k]) and the value or key it names
Err(kind, path, arg) == [kind |-> kind, path |-> path, arg |-> arg]
When(cond, e) == IF cond THEN <<e>> ELSE <<>>
\* for key in required: if key not in obj: "clé manquante : key"
MissingKeys(obj, required, path) ==
    Flatten([i \in 1..Len(required) |->
        When(~HasKey(obj, required[i]), Err("missing_key", path, JStr(required[i])))])

(***************************************************************************)
(* validate_json_structure.py                                              *)
(***************************************************************************)
GENRES_NORMALISES_KEYS == {
    "Podcast", "Animation", "Science-Fiction", "Fantastique", "Family", "Horror",
    "Mini-Series", "Documentaire", "Histoire", "Action", "Aventure", "Crime",
    "War & Politics", "Talk Show", "Comédie", "Jeux télé", "Sport", "Western",
    "Drame", "Martial Arts", "Suspense", "Mystery", "Romance", "YouTube" }
ALLOWED_TYPES == {"series", "movie"}
ALLOWED_CRITERIA_CATEGORIES == {"genre", "type", "language", "duration"}

\* x in SET for a set of strings and a hashable x
InStrings(x, S) == IsStr(x) /\ x.s \in S

ValidateCriterionStructure(crit, path) ==
    MissingKeys(crit, <<"category", "values", "forbidden">>, path)
    \o When(HasKey(crit, "category") /\ ~IsStr(Get(crit, "category")),
            Err("category_not_string", path, JNull))
    \o When(HasKey(crit, "values") /\
              (~IsList(Get(crit, "values")) \/ Len(Get(crit, "values").items) = 0),
            Err("values_not_nonempty_list", path, JNull))
    \o When(HasKey(crit, "forbidden") /\ ~IsBool(Get(crit, "forbidden")),
            Err("forbidden_not_bool", path, JNull))

SlotFormatStructure(sf, path) ==
    IF IsNone(sf) THEN <<>>
    ELSE IF ~IsDict(sf) THEN <<Err("slot_format_not_object", path, JNull)>>
    ELSE LET keys == <<"show_min_duration", "show_max_duration", "slot_duration">>
         IN Flatten([i \in 1..3 |->
                IF ~HasKey(sf, keys[i])
                THEN <<Err("slot_format_missing_key", path, JStr(keys[i]))>>
                ELSE When(~IsNumber(Get(sf, keys[i])),
                          Err("slot_format_not_number", path, JStr(keys[i])))])

CriteriaStructure(crits, path) ==
    IF IsNone(crits) THEN <<>>
    ELSE IF ~IsList(crits) \/ Len(crits.items) = 0
    THEN <<Err("criteria_not_nonempty_list", path, JNull)>>
    ELSE Flatten([k \in 1..Len(crits.items) |->
            IF ~IsDict(crits.items[k])
            THEN <<Err("criterion_not_object", Append(path, k), JNull)>>
            ELSE ValidateCriterionStructure(crits.items[k], Append(path, k))])

ValidateBlockStructure(block, path) ==
    MissingKeys(block, <<"criteria", "begin", "end", "slot_count", "slot_format", "shows">>,
                path)
    \o When(HasKey(block, "begin") /\ ~IsNumber(Get(block, "begin")),
            Err("not_number", path, JStr("begin")))
    \o When(HasKey(block, "end") /\ ~IsNumber(Get(block, "end")),
            Err("not_number", path, JStr("end")))
    \o When(HasKey(block, "slot_count") /\ ~IsInt(Get(block, "slot_count")),
            Err("slot_count_not_int", path, JNull))
    \o SlotFormatStructure(Get(block, "slot_format"), path)
    \o CriteriaStructure(Get(block, "criteria"), path)
    \o When(~IsNone(Get(block, "shows")) /\ ~IsList(Get(block, "shows")),
            Err("shows_not_list", path, JNull))

FillersStructure(fillers, path) ==
    IF IsNone(fillers) THEN <<>>
    ELSE IF ~IsList(fillers) THEN <<Err("fillers_not_list", path, JNull)>>
    ELSE Flatten([i \in 1..Len(fillers.items) |->
            IF ~IsStr(fillers.items[i])
            THEN <<Err("filler_not_string", path, JNull)>>
            ELSE When(~InStrings(fillers.items[i], GENRES_NORMALISES_KEYS),
                      Err("filler_unknown", path, fillers.items[i]))])

BlocksStructure(blocks, path) ==
    IF IsNone(blocks) THEN <<>>
    ELSE IF ~IsList(blocks) \/ Len(blocks.items) = 0
    THEN <<Err("blocks_not_nonempty_list", path, JNull)>>
    ELSE Flatten([j \in 1..Len(blocks.items) |->
            IF ~IsDict(blocks.items[j])
            THEN <<Err("block_not_object", Append(path, j), JNull)>>
            ELSE ValidateBlockStructure(blocks.items[j], Append(path, j))])

ValidateChannelStructure(ch, idx) ==
    LET path == <<idx>>
    IN MissingKeys(ch, <<"name", "description", "begin", "end", "fillers", "blocks">>, path)
       \o When(HasKey(ch, "name") /\ ~IsStr(Get(ch, "name")),
               Err("not_string", path, JStr("name")))
       \o When(HasKey(ch, "description") /\ ~IsStr(Get(ch, "description")),
               Err("not_string", path, JStr("description")))
       \o When(HasKey(ch, "begin") /\ ~IsNumber(Get(ch, "begin")),
               Err("not_number", path, JStr("begin")))
       \o When(HasKey(ch, "end") /\ ~IsNumber(Get(ch, "end")),
               Err("not_number", path, JStr("end")))
       \o FillersStructure(Get(ch, "fillers"), path)
       \o BlocksStructure(Get(ch, "blocks"), path)

\* validate_catalog_structure: `key not in catalog` and catalog.get need a dict
ValidateCatalogStructure(cat) ==
    IF ~IsDict(cat)
    THEN Raise(IF IsList(cat) \/ IsStr(cat) THEN "AttributeError" ELSE "TypeError")
    ELSE LET channels == Get(cat, "channels")
         IN Ok(MissingKeys(cat, <<"name", "step", "channels">>, <<>>)
               \o When(~IsNone(channels) /\ ~IsList(channels),
                       Err("channels_not_list", <<>>, JNull))
               \o IF IsList(channels)
                  THEN Flatten([i \in 1..Len(channels.items) |->
                          IF ~IsDict(channels.items[i])
                          THEN <<Err("channel_not_object", <<i>>, JNull)>>
                          ELSE ValidateChannelStructure(channels.items[i], i)])
                  ELSE <<>>)

(***************************************************************************)
(* validate_catalog_rules.py                                               *)
(***************************************************************************)
\* float() of an hour field and of a minute field
FloatHours(x) == Float(x, UnitsPerHour)
FloatMinutes(x) == Float(x, 1)

\* sf.get(key) == n, for a dict sf
FieldEquals(sf, key, n) ==
    LET x == Get(sf, key)
    IN \/ x.t = "number" /\ x.v = n
       \/ x.t = "bool" /\ n = (IF x.b THEN 1 ELSE 0)

\* is_allowed_slot_format on a JSON object
IsAllowedSlotFormatJson(sf) ==
    \E i \in 1..Len(ALLOWED_SLOT_FORMATS) :
        /\ FieldEquals(sf, "show_min_duration", ALLOWED_SLOT_FORMATS[i].show_min_duration)
        /\ FieldEquals(sf, "show_max_duration", ALLOWED_SLOT_FORMATS[i].show_max_duration)
        /\ FieldEquals(sf, "slot_duration", ALLOWED_SLOT_FORMATS[i].slot_duration)

\* line 226: slot_count in (1, 2) (mutant: in (1,))
SlotCountAllowedOnlyOne(x) == x.t = "number" /\ x.v = 1
SlotCountAllowed(x) == (x.t = "number" /\ x.v \in {1, 2}) \/ (x.t = "bool" /\ x.b)

\* The value of an int slot_count
IntValue(x) == IF x.t = "bool" THEN (IF x.b THEN 1 ELSE 0) ELSE x.v

\* lines 304-331: the checks of one value of a criterion, by category
CriterionValueRules(cat, v, path) ==
    CASE InStrings(cat, {"genre"}) ->
            IF ~Hashable(v) THEN Raise("TypeError")
            ELSE Ok(When(~InStrings(v, GENRES_NORMALISES_KEYS), Err("genre_unknown", path, v)))
      [] InStrings(cat, {"type"}) ->
            IF ~Hashable(v) THEN Raise("TypeError")
            ELSE Ok(When(~InStrings(v, ALLOWED_TYPES), Err("type_invalid", path, v)))
      [] InStrings(cat, {"language"}) ->
            Ok(When(~IsStr(v), Err("language_not_string", path, v)))
      [] InStrings(cat, {"duration"}) ->
            IF ~IsNumber(v) THEN Ok(<<Err("duration_not_number", path, v)>>)
            ELSE Ok(When(FloatMinutes(v).v <= 0, Err("duration_not_positive", path, v)))
      [] OTHER -> Ok(<<>>)

ValidateCriterionRules(crit, path) ==
    LET cat == Get(crit, "category")
        values == Get(crit, "values")
    IN IF ~Hashable(cat) THEN Raise("TypeError")
       ELSE Then(
           Ok(When(~InStrings(cat, ALLOWED_CRITERIA_CATEGORIES),
                   Err("category_invalid", path, cat))
              \o When(~IsBool(Get(crit, "forbidden")), Err("forbidden_not_bool", path, JNull))
              \o When(~IsList(values) \/ (IsList(values) /\ Len(values.items) = 0),
                      Err("values_not_nonempty_list", path, JNull))),
           IF IsList(values)
           THEN ThenAll([i \in 1..Len(values.items) |->
                            CriterionValueRules(cat, values.items[i], path)])
           ELSE Ok(<<>>))

\* lines 233-249: the duration check of a block with numeric begin and end
BlockDurationRule(b_begin, b_end, slot_count, sf, path) ==
    IF IsInt(slot_count) /\ IsDict(sf)
    THEN LET slot_duration == FloatMinutes(GetOr(sf, "slot_duration", JInt(0)))
         IN When(slot_duration.exc = "" /\
                   DurationError(b_begin, b_end, slot_duration.v, IntValue(slot_count)),
                 Err("block_duration", path, JNull))
    ELSE <<>>

ValidateBlockRules(block, path) ==
    LET fb == FloatHours(GetOr(block, "begin", JInt(0)))
        fe == FloatHours(GetOr(block, "end", JInt(0)))
        known == fb.exc = "" /\ fe.exc = ""
        slot_count == Get(block, "slot_count")
        sf == GetOr(block, "slot_format", JObj(<<>>))
        crits == GetOr(block, "criteria", JList(<<>>))
        shows == Get(block, "shows")
    IN Then(
        Ok(When(known /\ BeginEndError(fb.v, fe.v), Err("begin_lt_end", path, JNull))
           \o When(~SlotCountAllowed(slot_count), Err("slot_count_not_1_or_2", path, slot_count))
           \o When(~IsDict(sf) \/ (IsDict(sf) /\ ~IsAllowedSlotFormatJson(sf)),
                   Err("slot_format_not_allowed", path, JNull))
           \o (IF known THEN BlockDurationRule(fb.v, fe.v, slot_count, sf, path) ELSE <<>>)),
        Then(
           IF ~IsList(crits) \/ (IsList(crits) /\ Len(crits.items) = 0)
           THEN Ok(<<Err("criteria_not_nonempty_list_rules", path, JNull)>>)
           ELSE ThenAll([k \in 1..Len(crits.items) |->
                   IF ~IsDict(crits.items[k])
                   THEN Ok(<<Err("criterion_not_object", Append(path, k), JNull)>>)
                   ELSE ValidateCriterionRules(crits.items[k], Append(path, k))]),
           Ok(When(~IsNone(shows) /\ ~IsList(shows), Err("shows_not_list", path, JNull)))))

\* lines 141-145: the fillers of a channel
FillersRules(fillers, path) ==
    IF ~IsList(fillers) THEN Ok(<<>>)
    ELSE ThenAll([i \in 1..Len(fillers.items) |->
            IF ~Hashable(fillers.items[i]) THEN Raise("TypeError")
            ELSE Ok(When(~InStrings(fillers.items[i], GENRES_NORMALISES_KEYS),
                         Err("filler_unknown", path, fillers.items[i])))])

\* The sort key of a block, float(b.get("begin", 0)), or the exception
SortKey(b) == IF ~IsDict(b) THEN [exc |-> "AttributeError", v |-> 0]
              ELSE FloatHours(GetOr(b, "begin", JInt(0)))

\* sorted(blocks, key=...): Python's sort is stable (mutant: the list as given)
SortedByListed(items, keys) == items
SortedBy(items, keys) ==
    LET n == Len(items)
        Before(i, j) == keys[i] < keys[j] \/ (keys[i] = keys[j] /\ i < j)
        Rank(i) == Cardinality({j \in 1..n : Before(j, i)}) + 1
    IN [r \in 1..n |-> items[CHOOSE i \in 1..n : Rank(i) = r]]

\* lines 158-191: coverage of [begin, end] by the sorted blocks
CoverageRules(sorted, ch_begin, ch_end, path) ==
    LET n == Len(sorted)
        b_begin == [i \in 1..n |-> FloatHours(GetOr(sorted[i], "begin", JInt(0))).v]
        f_end == [i \in 1..n |-> FloatHours(GetOr(sorted[i], "end", JInt(0)))]
        bad == {i \in 1..n : f_end[i].exc /= ""}
    IN \* float(...get("end", 0)) on lines 160 and 170 is outside any try
       IF f_end[n].exc /= "" THEN Raise(f_end[n].exc)
       ELSE IF bad /= {} THEN Raise(f_end[MinOf(bad)].exc)
       ELSE Ok(When(FirstBlockError(b_begin[1], ch_begin), Err("first_block", path, JNull))
               \o When(LastBlockError(f_end[n].v, ch_end), Err("last_block", path, JNull))
               \o Flatten([i \in 1..(n - 1) |->
                      When(OverlapError(f_end[i].v, b_begin[i + 1]),
                           Err("overlap", Append(path, i), JNull))
                      \o When(GapError(f_end[i].v, b_begin[i + 1]),
                              Err("gap", Append(path, i), JNull))])
               \o Flatten([j \in 1..n |->
                      When(OutOfRangeError(b_begin[j], f_end[j].v, ch_begin, ch_end),
                           Err("out_of_range", Append(path, j), JNull))]))

ValidateChannelRules(ch, idx) ==
    LET path == <<idx>>
        fb == FloatHours(GetOr(ch, "begin", JInt(0)))
        fe == FloatHours(GetOr(ch, "end", JInt(0)))
        known == fb.exc = "" /\ fe.exc = ""
        blocks == GetOr(ch, "blocks", JList(<<>>))
        head == Then(Ok(When(known /\ BeginEndError(fb.v, fe.v),
                             Err("begin_lt_end", path, JNull))),
                     FillersRules(GetOr(ch, "fillers", JList(<<>>)), path))
    IN IF ~IsList(blocks) \/ (IsList(blocks) /\ Len(blocks.items) = 0) THEN head
       ELSE LET n == Len(blocks.items)
                keys == [i \in 1..n |-> SortKey(blocks.items[i])]
            IN IF \E i \in 1..n : keys[i].exc /= ""
               THEN Then(head, Ok(<<Err("cannot_sort", path, JNull)>>))
               ELSE LET sorted == SortedBy(blocks.items, [i \in 1..n |-> keys[i].v])
                    IN Then(head,
                       Then(IF known THEN CoverageRules(sorted, fb.v, fe.v, path)
                            ELSE Ok(<<>>),
                            ThenAll([j \in 1..n |->
                                ValidateBlockRules(sorted[j], Append(path, j))])))

ValidateCatalogRules(cat) ==
    LET channels == IF IsDict(cat) THEN GetOr(cat, "channels", JList(<<>>)) ELSE JList(<<>>)
    IN Then(ValidateCatalogStructure(cat),
            IF IsList(channels)
            THEN ThenAll([i \in 1..Len(channels.items) |->
                    IF ~IsDict(channels.items[i]) THEN Ok(<<>>)
                    ELSE ValidateChannelRules(channels.items[i], i)])
            ELSE Ok(<<>>))

(***************************************************************************)
(* The catalogs given to the validator                                     *)
(*                                                                         *)
(* Two families.  The timed catalogs have one channel from 6 h whose       *)
(* blocks are well formed and differ in begin, duration, slot_count and    *)
(* slot_format, with differences inside and outside the tolerance.  The    *)
(* malformed catalogs are a valid two-block catalog with one field or one  *)
(* element removed or replaced by a value of another JSON type.            *)
(***************************************************************************)
MaxBlocks == 2
\* a difference inside the tolerance, and one outside
Near == Tol \div 2
Far == 2 * Tol

Override(f, k, v) == [x \in (DOMAIN f) \cup {k} |-> IF x = k THEN v ELSE f[x]]
Without(f, k) == [x \in (DOMAIN f) \ {k} |-> f[x]]

SlotFormatFields(i) ==
    [k \in DOMAIN ALLOWED_SLOT_FORMATS[i] |-> JInt(ALLOWED_SLOT_FORMATS[i][k])]
\* a slot format outside ALLOWED_SLOT_FORMATS
OtherSlotFormatFields == Override(SlotFormatFields(2), "show_max_duration", JInt(55))
CriterionFields(values) ==
    "category" :> JStr("genre") @@ "values" :> JList(values) @@ "forbidden" :> JBool(FALSE)
BlockFields(b, e, sc, sf, crits) ==
    "criteria" :> JList(crits) @@ "begin" :> JFloat(b) @@ "end" :> JFloat(e)
    @@ "slot_count" :> JInt(sc) @@ "slot_format" :> sf @@ "shows" :> JList(<<>>)
ChannelFields(b, e, fillers, blocks) ==
    "name" :> JStr("Chaîne Exemple") @@ "description" :> JStr("Une chaîne")
    @@ "begin" :> JFloat(b) @@ "end" :> JFloat(e)
    @@ "fillers" :> JList(fillers) @@ "blocks" :> JList(blocks)
CatalogFields(channels) ==
    "name" :> JStr("Catalogue") @@ "step" :> JInt(0) @@ "channels" :> JList(channels)

GoodCriteria == <<JObj(CriterionFields(<<JStr("Action")>>))>>
GoodFillers == <<JStr("Comédie")>>

TimedBlocks ==
    {JObj(BlockFields(b, b + p[1] * ALLOWED_SLOT_FORMATS[p[2]].slot_duration * UnitsPerMinute + x,
                      p[1], JObj(SlotFormatFields(p[2])), GoodCriteria)) :
        b \in {Hours(6), Hours(7), Hours(7) + Near, Hours(7) + Far},
        p \in {<<1, 2>>, <<2, 2>>, <<3, 2>>, <<1, 4>>},
        x \in {0, Far}}
    \cup {JObj(BlockFields(Hours(6), Hours(7), 1, JObj(OtherSlotFormatFields), GoodCriteria)),
          \* begin=6, end=8 with slot_duration=60 and slot_count=1
          JObj(BlockFields(Hours(6), Hours(8), 1, JObj(SlotFormatFields(2)), GoodCriteria))}

TimedCatalogs ==
    {JObj(CatalogFields(<<JObj(ChannelFields(Hours(6), e, GoodFillers, blocks))>>)) :
        e \in {Hours(7), Hours(8)},
        blocks \in SeqsUpTo(TimedBlocks, MaxBlocks) \ {<<>>}}

\* test_validation.py: example_valid_catalog and example_invalid_catalog
TypeCriterion(type) == JObj(Override(CriterionFields(<<JStr(type)>>), "category", JStr("type")))
ExampleValidCatalog ==
    JObj(CatalogFields(<<JObj(ChannelFields(Hours(6), Hours(10), <<JStr("Suspense")>>,
        <<JObj(BlockFields(Hours(6), Hours(8), 2, JObj(SlotFormatFields(2)),
                           <<JObj(CriterionFields(<<JStr("Suspense")>>)),
                             TypeCriterion("series")>>)),
          JObj(BlockFields(Hours(8), Hours(10), 1, JObj(SlotFormatFields(4)),
                           <<JObj(CriterionFields(<<JStr("Suspense")>>)),
                             TypeCriterion("movie")>>))>>))>>))
ExampleInvalidCatalog ==
    JObj(CatalogFields(<<JObj(ChannelFields(Hours(7), Hours(10), <<JStr("Inexistant")>>,
        <<JObj(BlockFields(Hours(7), Hours(8), 1, JObj(SlotFormatFields(1)),
                           <<JObj(Without(CriterionFields(<<JStr("Action")>>), "forbidden")),
                             TypeCriterion("documentary")>>)),
          JObj(BlockFields(Hours(7) + UnitsPerHour \div 2, Hours(9), 3,
                           JObj(SlotFormatFields(2)),
                           <<JObj(CriterionFields(<<JStr("Action")>>)),
                             TypeCriterion("series")>>))>>))>>))
ExampleCatalogs == {ExampleValidCatalog, ExampleInvalidCatalog}

\* Values of every JSON type, to put where another type is expected
BadValues == {JNull, JStr("x"), JStr("7"), JBool(TRUE), JInt(7), JList(<<>>),
              JList(<<JList(<<>>)>>), JObj(<<>>)}
\* Criteria of every category, with values that suit some category
CriterionSamples ==
    {JObj(Override(CriterionFields(<<v>>), "category", JStr(c))) :
        c \in ALLOWED_CRITERIA_CATEGORIES,
        v \in {JStr("Action"), JStr("movie"), JInt(30), JInt(0), JList(<<>>)}}

LevelKeys == [catalog |-> {"name", "step", "channels"},
              channel |-> {"name", "description", "begin", "end", "fillers", "blocks"},
              block |-> {"criteria", "begin", "end", "slot_count", "slot_format", "shows"},
              slot_format |-> {"show_min_duration", "show_max_duration", "slot_duration"},
              criterion |-> {"category", "values", "forbidden"}]
ItemLevels == {"catalog_item", "channel_item", "block_item", "criterion_item",
               "value_item", "filler_item"}
\* One fault: at level lvl (of block idx, below the channel), the key removed
\* or set to val, or the whole element replaced by val
Patches ==
    UNION {{[lvl |-> l, idx |-> i, op |-> "set", key |-> k, val |-> v] :
               i \in 1..2, k \in LevelKeys[l], v \in BadValues}
           \cup {[lvl |-> l, idx |-> i, op |-> "del", key |-> k, val |-> JNull] :
               i \in 1..2, k \in LevelKeys[l]} : l \in DOMAIN LevelKeys}
    \cup {[lvl |-> l, idx |-> i, op |-> "item", key |-> "", val |-> v] :
               l \in ItemLevels, i \in 1..2, v \in BadValues}
    \cup {[lvl |-> "criterion_item", idx |-> i, op |-> "item", key |-> "", val |-> v] :
               i \in 1..2, v \in CriterionSamples}

Patched(f, p, lvl, j) ==
    IF p.lvl = lvl /\ p.idx = j
    THEN (IF p.op = "del" THEN Without(f, p.key) ELSE Override(f, p.key, p.val))
    ELSE f
Item(x, p, lvl, j) == IF p.lvl = lvl /\ p.idx = j THEN p.val ELSE x

MCriterion(p, j) ==
    Item(JObj(Patched(CriterionFields(<<Item(JStr("Action"), p, "value_item", j)>>),
                      p, "criterion", j)),
         p, "criterion_item", j)
MBlock(p, j) ==
    Item(JObj(Patched(BlockFields(Hours(5 + j), Hours(6 + j), 1,
                                  JObj(Patched(SlotFormatFields(2), p, "slot_format", j)),
                                  <<MCriterion(p, j)>>),
                      p, "block", j)),
         p, "block_item", j)
MChannel(p) ==
    Item(JObj(Patched(ChannelFields(Hours(6), Hours(8),
                                    <<Item(JStr("Comédie"), p, "filler_item", 1)>>,
                                    <<MBlock(p, 1), MBlock(p, 2)>>),
                      p, "channel", 1)),
         p, "channel_item", 1)
MCatalog(p) ==
    Item(JObj(Patched(CatalogFields(<<MChannel(p)>>), p, "catalog", 1)),
         p, "catalog_item", 1)

MalformedCatalogs == {MCatalog(p) : p \in Patches}

InitValid ==
    /\ mode = "valid" /\ pc = "call"
    /\ catalog \in TimedCatalogs \cup MalformedCatalogs \cup ExampleCatalogs
    /\ out_rules = <<>> /\ out_struct = <<>>
    /\ SchedIdle /\ CritIdle /\ RestIdle

\* validate_catalog_structure and validate_catalog_rules on the same catalog
ValidateCall ==
    /\ mode = "valid" /\ pc = "call"
    /\ out_struct' = ValidateCatalogStructure(catalog)
    /\ out_rules' = ValidateCatalogRules(catalog)
    /\ pc' = "returned"
    /\ UNCHANGED <<mode, catalog, schedVars, critVars, restVars>>

NextValid == ValidateCall

SpecVal == InitValid /\ [][NextValid]_vars

(***************************************************************************)
(* Claims about ChannelMaker                                               *)
(***************************************************************************)
\* The shortest block the pools of the program allow, and the broadcast window
MinBlockDuration ==
    MinuteToFloatHour(MinOf({f.slot_duration : f \in Range(available_slot_formats)})
                      * MinOf(Range(slot_count_options)))
WindowEnd == Hours(24) + Hours(channel_end_at)
AttemptBound == (WindowEnd - Hours(channel_begin_at)) \div MinBlockDuration + 3

\* C1: after every iteration of set_blocks the placed blocks are contiguous in
\* placement order: the first block begins at channel.begin, every later block
\* begins at the (unnormalized) end of the block before it, and the cursor is the
\* end of the last block.
C1_Contiguous ==
    (mode = "sched" /\ pc \in {"set_blocks_loop", "done", "validated"}) =>
        /\ contiguous
        /\ nblocks > 0 => /\ first_begin = channel.begin
                          /\ last_block.end = begin
                          /\ last_block.begin < last_block.end
        /\ nblocks = 0 => begin = channel.begin

\* C1 witness: several blocks placed, the last of them past midnight
C1_Witness ==
    /\ pc = "set_blocks_loop" /\ nblocks >= 3
    /\ last_block.begin > Hours(24) /\ contiguous

\* C2: when set_blocks terminates the last block ends at channel.end, 24 hours
\* later (the window wraps past midnight).
C2_ExactTiling ==
    (mode = "sched" /\ pc = "done") =>
        nblocks > 0 /\ last_block.end = channel.end + Hours(24)

\* C3: on a channel made by ChannelMaker the validator's temporal and duration
\* checks find nothing, a last block that misses channel.end excepted.
C3_GeneratedChannelValid ==
    (mode = "sched" /\ pc = "validated") => verdict \subseteq {"last_block"}

\* C4: set_blocks makes finitely many placement attempts: every attempt but at
\* most three appends a block, every block is at least MinBlockDuration long and
\* the cursor never passes the end of the window, so there are never more than
\* AttemptBound attempts, whatever the picks.
C4_BoundedAttempts ==
    (mode = "sched" /\ pc \in {"set_blocks_loop", "done", "validated"}) =>
        /\ attempts <= nblocks + 3
        /\ nblocks * MinBlockDuration <= begin - channel.begin
        /\ begin <= WindowEnd
        /\ attempts <= AttemptBound

\* C4 witness: a run that ended after exactly AttemptBound attempts
C4_Witness == pc = "done" /\ attempts = AttemptBound /\ retry = 2

(***************************************************************************)
(* validate_catalog_rules.main: the command-line entry point               *)
(***************************************************************************)
\* What the command line names: no path argument, a path that does not
\* exist, a path that cannot be opened (a directory, no permission), a file
\* that is not UTF-8, a file that is not JSON, or a JSON catalog
FileStates == {"no_argument", "missing", "unreadable", "not_utf8", "not_json", "json"}
\* Exit status of the interpreter when main raises: sys.exit is not reached
UncaughtExit == 1

InitMain ==
    /\ mode = "main" /\ pc = "call"
    /\ main_file \in FileStates
    /\ catalog \in IF main_file = "json"
                   THEN TimedCatalogs \cup MalformedCatalogs \cup ExampleCatalogs
                   ELSE {<<>>}
    /\ out_rules = <<>> /\ out_struct = <<>>
    /\ main_exit = NoExit /\ main_lines = 0
    /\ SchedIdle /\ CritIdle /\ SelIdle /\ GenIdle

\* main(sys.argv) under sys.exit
MainCall ==
    /\ mode = "main" /\ pc = "call"
    /\ LET res == IF main_file = "json" THEN ValidateCatalogRules(catalog) ELSE <<>>
       IN /\ out_rules' = res
          /\ main_exit' =
                CASE main_file = "no_argument" -> 2
                  [] main_file = "not_json" -> 1
                  [] main_file = "missing" -> 1
                  [] main_file \in {"unreadable", "not_utf8"} -> UncaughtExit
                  [] OTHER -> IF res.exc /= "" THEN UncaughtExit
                              ELSE IF res.errs = <<>> THEN 0 ELSE 1
          /\ main_lines' = IF main_file = "json" /\ res.exc = "" THEN Len(res.errs) ELSE 0
    /\ pc' = "returned"
    /\ UNCHANGED <<mode, main_file, catalog, out_struct, schedVars, critVars, selVars, genVars>>

NextMain == MainCall

SpecMain == InitMain /\ [][NextMain]_vars

(***************************************************************************)
(* Claims about the catalog validator                                      *)
(***************************************************************************)
Validated == mode = "valid" /\ pc = "returned"
ChannelsOf(cat) ==
    IF IsDict(cat) /\ IsList(Get(cat, "channels")) THEN Get(cat, "channels").items ELSE <<>>
\* The orders of 1..n in which the begins of the blocks do not decrease
SortedOrders(blocks) ==
    {perm \in Permutations(1..Len(blocks)) :
        \A i \in 1..(Len(blocks) - 1) :
            FloatHours(Get(blocks[perm[i]], "begin")).v
                <= FloatHours(Get(blocks[perm[i + 1]], "begin")).v}

\* C5: the validator returns a list of errors and never raises, whatever the
\* JSON shape of the catalog: elements that are not objects, and begin or end
\* missing, null or non-numeric, become error entries.
C5_NeverRaises == Validated => (out_struct.exc = "" /\ out_rules.exc = "")

WellFormedCriterion(c) ==
    /\ IsDict(c)
    /\ InStrings(Get(c, "category"), ALLOWED_CRITERIA_CATEGORIES)
    /\ IsBool(Get(c, "forbidden"))
    /\ IsList(Get(c, "values")) /\ Len(Get(c, "values").items) > 0
    /\ \A i \in 1..Len(Get(c, "values").items) :
          LET v == Get(c, "values").items[i]
              cat == Get(c, "category").s
          IN CASE cat = "genre" -> InStrings(v, GENRES_NORMALISES_KEYS)
               [] cat = "type" -> InStrings(v, ALLOWED_TYPES)
               [] cat = "language" -> IsStr(v)
               [] OTHER -> v.t = "number" /\ v.v > 0
WellFormedBlock(b) ==
    /\ IsDict(b)
    /\ Get(b, "begin").t = "number" /\ Get(b, "end").t = "number"
    /\ Get(b, "slot_count").t = "number" /\ Get(b, "slot_count").isint
    /\ Get(b, "slot_count").v \in {1, 2}
    /\ \E i \in 1..Len(ALLOWED_SLOT_FORMATS) :
          /\ Get(b, "slot_format") = JObj(SlotFormatFields(i))
          /\ Get(b, "end").v - Get(b, "begin").v
                = ALLOWED_SLOT_FORMATS[i].slot_duration * Get(b, "slot_count").v * UnitsPerMinute
    /\ IsList(Get(b, "shows"))
    /\ IsList(Get(b, "criteria")) /\ Len(Get(b, "criteria").items) > 0
    /\ \A k \in 1..Len(Get(b, "criteria").items) :
          WellFormedCriterion(Get(b, "criteria").items[k])
WellFormedChannel(ch) ==
    /\ IsDict(ch)
    /\ IsStr(Get(ch, "name")) /\ IsStr(Get(ch, "description"))
    /\ Get(ch, "begin").t = "number" /\ Get(ch, "end").t = "number"
    /\ Get(ch, "begin").v < Get(ch, "end").v
    /\ IsList(Get(ch, "fillers"))
    /\ \A i \in 1..Len(Get(ch, "fillers").items) :
          InStrings(Get(ch, "fillers").items[i], GENRES_NORMALISES_KEYS)
    /\ IsList(Get(ch, "blocks")) /\ Len(Get(ch, "blocks").items) > 0
    /\ \A j \in 1..Len(Get(ch, "blocks").items) : WellFormedBlock(Get(ch, "blocks").items[j])
    /\ LET blocks == Get(ch, "blocks").items
           n == Len(blocks)
       IN \E perm \in SortedOrders(blocks) :
              /\ Get(blocks[perm[1]], "begin").v = Get(ch, "begin").v
              /\ Get(blocks[perm[n]], "end").v = Get(ch, "end").v
              /\ \A i \in 1..(n - 1) :
                    Get(blocks[perm[i]], "end").v = Get(blocks[perm[i + 1]], "begin").v
WellFormedCatalog(cat) ==
    /\ IsDict(cat)
    /\ HasKey(cat, "name") /\ HasKey(cat, "step") /\ IsList(Get(cat, "channels"))
    /\ \A i \in 1..Len(ChannelsOf(cat)) : WellFormedChannel(ChannelsOf(cat)[i])

\* C6: for a catalog with name, step and channels whose channels have string
\* name and description, numeric begin < end, normalized fillers and blocks
\* that tile [begin, end] exactly, each with slot_count 1 or 2, an allowed slot
\* format, the matching duration, a shows list and well-formed criteria, both
\* validate_catalog_structure and validate_catalog_rules return the empty list.
C6_ValidAccepted ==
    (Validated /\ WellFormedCatalog(catalog))
        => (out_struct = Ok(<<>>) /\ out_rules = Ok(<<>>))
\* a valid channel whose two blocks are listed later block first
C6_Witness ==
    /\ Validated /\ WellFormedCatalog(catalog)
    /\ Len(ChannelsOf(catalog)) = 1
    /\ LET blocks == Get(ChannelsOf(catalog)[1], "blocks").items
       IN Len(blocks) = 2 /\ Get(blocks[1], "begin").v > Get(blocks[2], "begin").v
    /\ out_rules = Ok(<<>>)

\* The channel invariant, every comparison within the tolerance
ChannelInvariant(ch) ==
    LET blocks == IF IsList(Get(ch, "blocks")) THEN Get(ch, "blocks").items ELSE <<>>
        n == Len(blocks)
        b(j) == FloatHours(Get(blocks[j], "begin")).v
        e(j) == FloatHours(Get(blocks[j], "end")).v
    IN /\ n > 0
       /\ \A j \in 1..n : IsDict(blocks[j]) /\ IsNumber(Get(blocks[j], "begin"))
                            /\ IsNumber(Get(blocks[j], "end"))
       /\ \E perm \in SortedOrders(blocks) :
              /\ AlmostEqual(b(perm[1]), FloatHours(Get(ch, "begin")).v)
              /\ AlmostEqual(e(perm[n]), FloatHours(Get(ch, "end")).v)
              /\ \A i \in 1..(n - 1) : AlmostEqual(e(perm[i]), b(perm[i + 1]))
       /\ \A j \in 1..n :
              /\ b(j) >= FloatHours(Get(ch, "begin")).v - Tol
              /\ e(j) <= FloatHours(Get(ch, "end")).v + Tol
              /\ IsDict(Get(blocks[j], "slot_format"))
              /\ IsAllowedSlotFormatJson(Get(blocks[j], "slot_format"))
              /\ IsInt(Get(blocks[j], "slot_count"))
              /\ AlmostEqual(e(j) - b(j),
                     FloatMinutes(Get(Get(blocks[j], "slot_format"), "slot_duration")).v
                         * IntValue(Get(blocks[j], "slot_count")) * UnitsPerMinute)

\* C7: if validate_catalog_rules returns the empty list for a catalog, every
\* channel of the catalog satisfies the channel invariant: its blocks sorted by
\* begin start at channel.begin, end at channel.end, meet without gap or
\* overlap and stay inside [begin, end], all within 1e-6, and every block has
\* an allowed slot format and the duration slot_duration*slot_count/60.
C7_EmptyImpliesInvariant ==
    (Validated /\ out_rules = Ok(<<>>))
        => \A i \in 1..Len(ChannelsOf(catalog)) : ChannelInvariant(ChannelsOf(catalog)[i])

(***************************************************************************)
(* Claims about check_criteria                                             *)
(***************************************************************************)
Returned_ == mode = "crit" /\ pc = "returned"

\* C8: negation law: check_criteria with forbidden=true returns the logical
\* negation of check_criteria with forbidden=false, for every show and criterion.
C8_NegationLaw ==
    Returned_ =>
        /\ res_plain \in {"True", "False"}
        /\ res_forbidden \in {"True", "False"}
        /\ res_forbidden /= res_plain

\* C9: a criterion with an empty values list yields false, for every show, every
\* category and both values of forbidden.
C9_EmptyValuesFalse ==
    (Returned_ /\ Len(criteria.values) = 0) =>
        res_plain = "False" /\ res_forbidden = "False"

\* C9 witness: empty values checked against a show that has values for the category
C9_Witness ==
    /\ Returned_ /\ Len(criteria.values) = 0
    /\ Len(ShowProperty(show, criteria.category)) > 0

\* C10: for genre, type and language with non-empty values and forbidden=false the
\* result is true iff the show's values for the category and criterion.values have
\* an element in common, whatever the values.
C10_Intersection ==
    (Returned_ /\ criteria.category \in CATEGORICAL /\ Len(criteria.values) > 0) =>
        (res_plain = "True" <=>
            Range(ShowProperty(show, criteria.category)) \cap Range(criteria.values) /= {})

\* The numbers of a list of duration values
NumbersOf(l) == {x.v : x \in Range(l) \ {Null}}
DurationCase ==
    /\ Returned_ /\ criteria.category = DURATION
    /\ Len(criteria.values) > 0 /\ Null \notin Range(criteria.values)
    /\ Len(ShowProperty(show, DURATION)) > 0

\* C11: for a duration criterion with non-empty values and forbidden=false, a
\* show whose declared range values are all non-null matches iff
\* min(values) < min(range) and max(range) < max(values), both strict; a show
\* with a null range value never matches.
C11_DurationStrict ==
    DurationCase =>
        LET range == ShowProperty(show, DURATION)
        IN IF Null \notin Range(range)
           THEN res_plain = (IF /\ MinOf(NumbersOf(criteria.values)) < MinOf(NumbersOf(range))
                                /\ MaxOf(NumbersOf(range)) < MaxOf(NumbersOf(criteria.values))
                             THEN "True" ELSE "False")
           ELSE res_plain = "False"
\* C11 witness: a non-null range that touches the lower bound and does not match
C11_Witness ==
    /\ DurationCase /\ Null \notin Range(ShowProperty(show, DURATION))
    /\ MinOf(NumbersOf(criteria.values)) = MinOf(NumbersOf(ShowProperty(show, DURATION)))
    /\ MaxOf(NumbersOf(ShowProperty(show, DURATION))) < MaxOf(NumbersOf(criteria.values))
    /\ res_plain = "False"

(***************************************************************************)
(* Claims about ShowSelector.generate_schedules                            *)
(***************************************************************************)
SelDone == mode = "sel" /\ pc = "done"
\* The positions of the shows that satisfy the duration criterion of the slot
\* format and every criterion of the block
Satisfying(block) ==
    {i \in 1..Len(sel_show_list) :
        /\ CheckCriteria(sel_show_list[i],
                         [category |-> DURATION,
                          values |-> <<Num(block.slot_format.show_min_duration),
                                       Num(block.slot_format.show_max_duration)>>],
                         FALSE) = "True"
        /\ \A k \in 1..Len(block.criteria) :
              CheckCriteria(sel_show_list[i], block.criteria[k],
                            Forbidden(block.criteria[k])) = "True"}

\* C12: after generate_schedules, the shows of every block are items of the
\* content catalog that satisfy every criterion of the effective list (the
\* duration criterion of the slot format, then the block's criteria), and
\* there are exactly min(10, number of such items) of them.
C12_ShowsMatchAndCapped ==
    SelDone =>
        \A j \in 1..Len(sel_blocks) :
            /\ sel_blocks[j].shows \subseteq Satisfying(sel_blocks[j])
            /\ Cardinality(sel_blocks[j].shows)
                  = (IF Cardinality(Satisfying(sel_blocks[j])) < 10
                     THEN Cardinality(Satisfying(sel_blocks[j])) ELSE 10)
\* C12 witness: a block with more than 10 satisfying shows, and a show of the
\* catalog that does not satisfy its criteria
C12_Witness ==
    /\ SelDone
    /\ \E j \in 1..Len(sel_blocks) :
          /\ Cardinality(Satisfying(sel_blocks[j])) > 10
          /\ Cardinality(sel_blocks[j].shows) = 10
          /\ Satisfying(sel_blocks[j]) /= 1..Len(sel_show_list)

\* C13: generate_schedules changes only the shows of each block: begin, end,
\* slot_count, slot_format and criteria of every block, the number and order
\* of the blocks and the content catalog list are the same as at the call.
C13_OnlyShowsChange ==
    mode = "sel" =>
        /\ sel_show_list = sel_show_list0
        /\ Len(sel_blocks) = Len(sel_blocks0)
        /\ \A j \in 1..Len(sel_blocks) :
              [sel_blocks[j] EXCEPT !.shows = {}] = [sel_blocks0[j] EXCEPT !.shows = {}]
\* C13 witness: the call is over and has given shows to a block with criteria
C13_Witness ==
    /\ SelDone
    /\ \E j \in 1..Len(sel_blocks) :
          /\ sel_blocks[j].shows /= sel_blocks0[j].shows
          /\ Len(sel_blocks[j].criteria) > 0

(***************************************************************************)
(* Claims about GridGenerator.generate_catalog                             *)
(***************************************************************************)
\* C14: the step of the catalog is a monotonic cursor: in a call of
\* generate_catalog and across calls, the step of the catalog in memory and of
\* the saved catalog never decreases, and a call that assigns content ends
\* with step = 2 in the returned and in the saved catalog.
C14_StepMonotonic ==
    mode = "gen" =>
        /\ gen_mem /= NoCatalog => gen_mem.step = gen_hi.mem
        /\ gen_disk /= NoCatalog => gen_disk.step = gen_hi.disk
        /\ (pc = "returned" /\ gen_done.schedules > 0)
              => (gen_mem.step = 2 /\ gen_disk.step = 2)

\* C15: resumption is idempotent: a call of generate_catalog on the catalog a
\* completed call saved neither builds or reloads channels nor generates
\* schedules, and leaves the channels of the catalog as the first call saved
\* them.
C15_ResumptionSkips ==
    (mode = "gen" /\ gen_first /= NoCatalog) =>
        /\ gen_done.channels = 0 /\ gen_done.schedules = 0
        /\ pc = "returned" => gen_disk.channels = gen_first.channels

(***************************************************************************)
(* Claims about the error list of the catalog validator                    *)
(***************************************************************************)
\* The number of entries of the returned list with a kind and a prefix
Count(kind, path) ==
    Cardinality({i \in 1..Len(out_rules.errs) :
                    out_rules.errs[i].kind = kind /\ out_rules.errs[i].path = path})
CountNaming(kind, path, arg) ==
    Cardinality({i \in 1..Len(out_rules.errs) :
                    /\ out_rules.errs[i].kind = kind /\ out_rules.errs[i].path = path
                    /\ out_rules.errs[i].arg = arg})
CountKind(kind) ==
    Cardinality({i \in 1..Len(out_rules.errs) : out_rules.errs[i].kind = kind})
BlocksOf(ch) == IF IsDict(ch) /\ IsList(Get(ch, "blocks")) THEN Get(ch, "blocks").items ELSE <<>>
NumericTimes(x) == IsDict(x) /\ Get(x, "begin").t = "number" /\ Get(x, "end").t = "number"
\* The validator returned a list
Listed == Validated /\ out_rules.exc = ""
Bit(cond) == IF cond THEN 1 ELSE 0

\* C16: for each pair of consecutive blocks in begin order the validator
\* reports an overlap error iff end[i] > begin[i+1] + 1e-6 and a gap error iff
\* |end[i] - begin[i+1]| > 1e-6, as separate entries; for blocks [7,8] and
\* [7.5,9] of a channel [7,10] it reports exactly one overlap error and a
\* last-block mismatch.  (Channels and blocks with numeric begin and end.)
C16_OverlapAndGap ==
    Listed =>
        /\ \A c \in 1..Len(ChannelsOf(catalog)) :
              LET ch == ChannelsOf(catalog)[c]
                  blocks == BlocksOf(ch)
              IN (NumericTimes(ch) /\ \A j \in 1..Len(blocks) : NumericTimes(blocks[j]))
                 => \E perm \in SortedOrders(blocks) :
                       \A k \in 1..(Len(blocks) - 1) :
                          LET end_k == Get(blocks[perm[k]], "end").v
                              begin_next == Get(blocks[perm[k + 1]], "begin").v
                          IN /\ Count("overlap", <<c, k>>) = Bit(end_k > begin_next + Tol)
                             /\ Count("gap", <<c, k>>) = Bit(Abs(end_k - begin_next) > Tol)
        /\ catalog = ExampleInvalidCatalog
              => (CountKind("overlap") = 1 /\ Count("overlap", <<1, 1>>) = 1
                  /\ Count("last_block", <<1>>) = 1)
\* C16 witness: the overlapping pair of example_invalid_catalog yields both entries
C16_Witness ==
    /\ Listed /\ catalog = ExampleInvalidCatalog
    /\ Count("overlap", <<1, 1>>) = 1 /\ Count("gap", <<1, 1>>) = 1

\* C17: for each filler of a channel that is not a normalized genre key the
\* returned error list contains exactly one error naming that filler, and none
\* for a filler that is a key.
C17_OneErrorPerFiller ==
    Listed =>
        \A c \in 1..Len(ChannelsOf(catalog)) :
            LET ch == ChannelsOf(catalog)[c]
                fillers == IF IsDict(ch) /\ IsList(Get(ch, "fillers"))
                           THEN Get(ch, "fillers").items ELSE <<>>
            IN \A i \in 1..Len(fillers) :
                  IsStr(fillers[i]) =>
                     CountNaming("filler_unknown", <<c>>, fillers[i])
                        = Bit(fillers[i].s \notin GENRES_NORMALISES_KEYS)

\* C18: for every block with numeric begin and end, an object slot_format and
\* an integer slot_count, the validator reports a duration error iff
\* |(end - begin) - slot_duration*slot_count/60| > 1e-6; begin=6, end=8 with
\* slot_duration=60 and slot_count=1 is reported.  (Blocks of a channel whose
\* blocks can be sorted, slot_duration a number.)
C18_DurationArithmetic ==
    Listed =>
        \A c \in 1..Len(ChannelsOf(catalog)) :
            LET blocks == BlocksOf(ChannelsOf(catalog)[c])
            IN (\A j \in 1..Len(blocks) :
                    IsDict(blocks[j]) /\ Get(blocks[j], "begin").t = "number")
               => \E perm \in SortedOrders(blocks) :
                     \A k \in 1..Len(blocks) :
                        LET b == blocks[perm[k]]
                            sf == Get(b, "slot_format")
                            sc == Get(b, "slot_count")
                        IN (/\ NumericTimes(b) /\ IsDict(sf)
                            /\ Get(sf, "slot_duration").t = "number"
                            /\ sc.t = "number" /\ sc.isint)
                           => Count("block_duration", <<c, k>>)
                                 = Bit(Abs((Get(b, "end").v - Get(b, "begin").v)
                                           - Get(sf, "slot_duration").v * sc.v * UnitsPerMinute)
                                       > Tol)
\* C18 witness: the block begin=6, end=8, slot_duration=60, slot_count=1 alone
\* in a channel [6,8] is reported
C18_Witness ==
    /\ Listed /\ Len(ChannelsOf(catalog)) = 1
    /\ BlocksOf(ChannelsOf(catalog)[1])
          = <<JObj(BlockFields(Hours(6), Hours(8), 1, JObj(SlotFormatFields(2)), GoodCriteria))>>
    /\ Count("block_duration", <<1, 1>>) = 1

\* The catalog with the blocks of channel c listed in the order perm
Permuted(cat, c, perm) ==
    LET ch == ChannelsOf(cat)[c]
        blocks == BlocksOf(ch)
    IN JObj(Override(cat.f, "channels",
           JList([ChannelsOf(cat) EXCEPT
                    ![c] = JObj(Override(ch.f, "blocks",
                                   JList([k \in 1..Len(blocks) |-> blocks[perm[k]]])))])))

\* C20: validity does not depend on the order in which blocks are listed: for
\* every permutation of the blocks of a channel, validate_catalog_rules returns
\* the empty list for the permuted catalog iff it does for the original.
C20_OrderIndependent ==
    Validated =>
        \A c \in 1..Len(ChannelsOf(catalog)) :
            LET ch == ChannelsOf(catalog)[c]
            IN (IsDict(ch) /\ IsList(Get(ch, "blocks")))
               => \A perm \in Permutations(1..Len(BlocksOf(ch))) :
                     (ValidateCatalogRules(Permuted(catalog, c, perm)) = Ok(<<>>))
                         <=> (out_rules = Ok(<<>>))
\* C20 witness: a channel accepted with its two blocks listed later block
\* first, and accepted with them listed in begin order
C20_Witness ==
    /\ Validated /\ out_rules = Ok(<<>>) /\ Len(ChannelsOf(catalog)) = 1
    /\ LET blocks == BlocksOf(ChannelsOf(catalog)[1])
       IN /\ Len(blocks) = 2
          /\ Get(blocks[1], "begin").v > Get(blocks[2], "begin").v
          /\ ValidateCatalogRules(Permuted(catalog, 1, <<2, 1>>)) = Ok(<<>>)

\* C19: the exit code of the entry point identifies the outcome class: 0
\* when the error list is empty, 1 with one printed line per error when the
\* catalog is invalid, and 2 for a usage fault, i.e. a missing path argument or
\* an unreadable or unparsable file.
C19_ExitCodes ==
    (mode = "main" /\ pc = "returned") =>
        /\ main_exit = 2 <=> main_file /= "json"
        /\ main_exit = 0 <=> (main_file = "json" /\ out_rules = Ok(<<>>))
        /\ main_exit = 1 <=> (/\ main_file = "json" /\ out_rules.exc = ""
                              /\ out_rules.errs /= <<>>
                              /\ main_lines = Len(out_rules.errs))

(***************************************************************************)
(* Claims about the placement attempts of ChannelMaker.set_blocks          *)
(***************************************************************************)
\* set_blocks has made at least one attempt
Tried == mode = "sched" /\ attempts > 0 /\ pc \in {"set_blocks_loop", "done", "validated"}

\* C21: generate_block places a block iff the candidate's unnormalized end =
\* cursor + slot_duration*slot_count/60 is below 24 or, when it is 24 or more,
\* end - 24 does not exceed channel.end; otherwise no block is returned and the
\* block list and the cursor are left unchanged.
C21_PlacementRule ==
    Tried =>
        /\ last_try.end = last_try.begin
                          + last_try.slot_duration * last_try.slot_count * UnitsPerMinute
        /\ last_try.placed <=> \/ last_try.end < Hours(24)
                               \/ last_try.end - Hours(24) <= channel.end
        /\ last_try.placed => /\ nblocks = last_try.nblocks + 1
                              /\ last_block.begin = last_try.begin
                              /\ last_block.end = last_try.end
        /\ ~last_try.placed => /\ nblocks = last_try.nblocks
                               /\ begin = last_try.begin
                               /\ nblocks > 0 => last_block.end = last_try.begin
\* C21 witness: a candidate that wraps past channel.end was refused after blocks
\* had been placed, and the cursor stayed where it was
C21_Witness ==
    /\ Tried /\ ~last_try.placed /\ last_try.nblocks > 0
    /\ last_try.end - Hours(24) > channel.end
    /\ begin = last_try.begin /\ nblocks = last_try.nblocks

\* The loop of set_blocks is running, or has been left
InLoop == mode = "sched" /\ pc \in {"set_blocks_loop", "done", "validated"}
Stopped == mode = "sched" /\ pc \in {"done", "validated"}

\* C22: the loop stops exactly when the retry counter exceeds 1, and this
\* happens only after two consecutive placement failures that both occur while
\* the scheduler is already in forced-minimum state.
C22_TwoForcedFailures ==
    InLoop =>
        /\ Stopped <=> retry > 1
        /\ Stopped => /\ ~last_try.placed /\ last_try.force_minimum
                      /\ last_try.after = "failed_forced"
\* C22, amended: the loop stops exactly when the retry counter exceeds 1, and
\* this happens only after two consecutive placement failures, the second of
\* which occurs in forced-minimum state; the first may have occurred in
\* accumulating state, being the failure that entered forced-minimum.
C22_TwoFailuresLastForced ==
    InLoop =>
        /\ Stopped <=> retry > 1
        /\ Stopped => /\ retry = 2 /\ force_minimum
                      /\ ~last_try.placed /\ last_try.force_minimum /\ last_try.retry = 1
                      /\ last_try.after \in {"failed_accumulating", "failed_forced"}
\* C22 witness: the loop stopped after a failure in accumulating state followed
\* by one failure in forced-minimum state
C22_Witness ==
    /\ Stopped /\ retry = 2 /\ ~last_try.placed /\ last_try.force_minimum
    /\ last_try.after = "failed_accumulating"

\* C23: on a successful placement the block is appended, the cursor becomes the
\* block's unnormalized end, the retry counter is reset to 0 and the scheduler
\* state is unchanged; once forced-minimum has been entered the scheduler never
\* returns to random selection, even after later successful placements.
C23_SuccessKeepsState ==
    Tried =>
        /\ last_try.placed => /\ nblocks = last_try.nblocks + 1
                              /\ last_block.end = last_try.end
                              /\ begin = last_try.end
                              /\ retry = 0
                              /\ force_minimum = last_try.force_minimum
        /\ last_try.force_minimum => force_minimum
        /\ last_try.after \in {"failed_accumulating", "failed_forced"}
              => last_try.force_minimum
\* C23 witness: in forced-minimum state a block was placed after another placed
\* block, past midnight, and the scheduler is still in forced-minimum state
C23_Witness ==
    /\ Tried /\ last_try.placed /\ last_try.force_minimum /\ last_try.after = "placed"
    /\ begin > Hours(24) /\ retry = 0 /\ force_minimum

\* C24: a failed placement sets forced-minimum and increments the retry
\* counter by one; in forced-minimum every attempt uses the slot format with
\* the smallest slot_duration and the smallest slot count of the channel's
\* pools, whose block duration is the minimum over all pairs of the pools.
C24_FailureForcesMinimum ==
    Tried =>
        /\ ~last_try.placed => (force_minimum /\ retry = last_try.retry + 1)
        /\ last_try.force_minimum =>
              /\ \A f \in channel.available_slot_format :
                    last_try.slot_duration <= f.slot_duration
              /\ \E f \in channel.available_slot_format :
                    last_try.slot_duration = f.slot_duration
              /\ last_try.slot_count \in channel.available_slot_count
              /\ \A c \in channel.available_slot_count : last_try.slot_count <= c
              /\ \A f \in channel.available_slot_format, c \in channel.available_slot_count :
                    last_try.slot_duration * last_try.slot_count <= f.slot_duration * c
\* C24 witness: with two slot formats and two slot counts in the pools, an
\* attempt in forced-minimum state failed and the retry counter went up by one
C24_Witness ==
    /\ Tried /\ last_try.force_minimum /\ ~last_try.placed
    /\ Cardinality(channel.available_slot_format) = 2
    /\ Cardinality(channel.available_slot_count) = 2
    /\ retry = last_try.retry + 1 /\ last_try.retry = 0

\* The pairs of the pools that generate_block would place at cursor b
Fitting(ch, b) ==
    {p \in ch.available_slot_format \X ch.available_slot_count :
        LET end_date == b + p[1].slot_duration * p[2] * UnitsPerMinute
        IN end_date < Hours(24) \/ end_date - Hours(24) <= ch.end}

\* C25: a placement attempt in accumulating state fails, and the scheduler
\* enters forced-minimum, only when no (slot format, slot count) pair of the
\* channel's pools fits at the current cursor.
C25_FailureMeansNothingFits ==
    (Tried /\ ~last_try.placed /\ ~last_try.force_minimum)
        => Fitting(channel, last_try.begin) = {}

\* C29: when set_blocks stops, no (slot format, slot count) pair of the pools
\* fits at the final cursor: the uncovered remainder of the window up to
\* channel.end (+24, the window wraps) is strictly shorter than the smallest
\* block duration of the pools.
C29_MaximalAtTermination ==
    Stopped =>
        /\ Fitting(channel, begin) = {}
        /\ \A f \in channel.available_slot_format, c \in channel.available_slot_count :
              channel.end + Hours(24) - begin < f.slot_duration * c * UnitsPerMinute
        /\ channel.end + Hours(24) - begin >= 0
\* C29 witness: set_blocks stopped short of the end of the window although the
\* pools hold two formats and two counts
C29_Witness ==
    /\ Stopped /\ nblocks > 0 /\ channel.end + Hours(24) - begin > 0
    /\ Cardinality(channel.available_slot_format) = 2
    /\ Cardinality(channel.available_slot_count) = 2
    /\ Fitting(channel, begin) = {}

\* C30: in forced-minimum state a failed placement attempt is always
\* immediately followed by a second failed attempt and termination.
C30_ForcedFailureRetried ==
    Tried =>
        /\ (~last_try.placed /\ last_try.force_minimum /\ last_try.after /= "failed_forced")
              => pc = "set_blocks_loop"
        /\ last_try.after = "failed_forced" => (~last_try.placed /\ Stopped)
\* C30, amended: no block is placed after a failed attempt in forced-minimum
\* state.  When the failed attempt follows a failure (the one in accumulating
\* state that entered forced-minimum) the loop stops at once; otherwise exactly
\* one more attempt is made, with the same candidate at the same cursor, it
\* fails and the loop stops.
C30_RetryNeverSucceeds ==
    Tried =>
        /\ (~last_try.placed /\ last_try.force_minimum) =>
              IF last_try.after = "placed"
              THEN pc = "set_blocks_loop" /\ retry = 1 /\ force_minimum
              ELSE Stopped /\ last_try.after \in {"failed_accumulating", "failed_forced"}
        /\ last_try.after = "failed_forced" =>
              /\ ~last_try.placed /\ Stopped /\ last_try.force_minimum
              /\ last_try.after_failed
                    = <<last_try.begin, last_try.slot_duration, last_try.slot_count>>
              /\ begin = last_try.begin
\* C30 witness: two failed attempts in forced-minimum state, at the same cursor
\* with the same candidate, after blocks placed in forced-minimum state
C30_Witness ==
    /\ Stopped /\ last_try.after = "failed_forced" /\ ~last_try.placed
    /\ last_try.after_failed = <<begin, last_try.slot_duration, last_try.slot_count>>
    /\ nblocks > 0

(***************************************************************************)
(* Further claims about check_criteria                                     *)
(***************************************************************************)
\* C26: under a duration criterion with forbidden=true and non-empty values, a
\* show whose declared duration data contains a null value evaluates to true.
C26_NullDurationNegated ==
    (/\ Returned_ /\ criteria.category = DURATION /\ Len(criteria.values) > 0
     /\ Null \in Range(ShowProperty(show, DURATION)))
        => res_forbidden = "True"

\* C28: check_criteria is total: it returns a boolean without raising for
\* every show and every criterion, a show without duration property, with an
\* empty duration list or without properties mapping included.
C28_Total ==
    Returned_ =>
        \A res \in {res_plain, res_forbidden} :
            res \notin {"ValueError", "TypeError"} /\ res \in {"True", "False"}

(***************************************************************************)
(* Further claims about GridGenerator.generate_catalog                     *)
(***************************************************************************)
\* C27: generate_catalog with the random template on a fresh catalog runs
\* structure generation and then content assignment without error: every
\* channel built by ChannelMaker carries every field the later stages read,
\* and the returned catalog has channel_count channels whose blocks all have a
\* shows list.
C27_RandomTemplateCompletes ==
    (mode = "gen" /\ gen_args.template = "random" /\ gen_run = 1) =>
        /\ pc /= "raised"
        /\ \A i \in 1..Len(gen_mem.channels) : gen_mem.channels[i].fillers
        /\ pc = "returned" =>
              /\ Len(gen_mem.channels) = gen_args.channel_count
              /\ \A i \in 1..Len(gen_mem.channels) : gen_mem.channels[i].assigned > 0

====
